---- MODULE Spec2Model ----
(***************************************************************************)
(* Reservation chatbot: the LangGraph dialogue graph of app/graph.py, the  *)
(* guardrail function of app/guardrails.py and the /chat endpoint of       *)
(* app/main.py.                                                            *)
(*                                                                         *)
(* One checkpointed GraphState per thread.  A key of the GraphState that   *)
(* no node has written yet is missing from the dictionary a node receives  *)
(* (state['k'] raises KeyError, state.get('k', d) yields d); the marker    *)
(* Absent stands for such a key and None for Python's None.  The           *)
(* initial_state dictionary of main.py:69-73 is never given to the graph,  *)
(* so a new thread starts with every key missing.                          *)
(*                                                                         *)
(* The external model calls are inputs: every call either raises or        *)
(* returns any value of its schema, in any state.                          *)
(*                                                                         *)
(* Three specifications:                                                   *)
(*   Spec      the turns of POST /chat (main.py): update_state as node     *)
(*             check_guardrails, then invoke(None), which resumes after    *)
(*             that node;                                                  *)
(*   SpecGraph the compiled graph run from its entry point                 *)
(*             check_guardrails on {"message": m} (graph.py:414-473);      *)
(*   SpecGate  check_all_guardrails on every bounded message and every     *)
(*             outcome of its two model calls, followed by the run of the  *)
(*             graph on a new thread.                                      *)
(* A turn is one action: the whole run of the graph up to END, or up to    *)
(* the node that raises.                                                   *)
(***************************************************************************)
EXTENDS Integers, Sequences, FiniteSets, TLC

VARIABLES
    state,      \* the checkpointed GraphState of the thread (state.py:7-33)
    http,       \* what the last /chat call returned to the caller (main.py:86-91)
    out,        \* what the nodes of the last turn printed (the print calls of graph.py)
    gate,       \* the last call of check_all_guardrails: its message and its result
                \* (under SpecGate also the outcomes drawn for its two model calls)
    session_memory,     \* the checkpoint MemorySaver keeps for each thread_id
                        \* (state.py:38), where several users are modelled
    solo        \* for each user_id, the GraphState that user's own turns, taken
                \* in their order on a thread of their own, lead to

vars == <<state, http, out, gate, session_memory, solo>>

----------------------------------------------------------------------------
(* Bounds *)

MaxCandidates == 2      \* longest list the fuzzy date resolver returns
MaxPartySize == 1       \* largest party size the extractor returns
MaxWords == 2           \* longest message given to the guardrail function

----------------------------------------------------------------------------
(* Values *)

Absent == "<absent>"        \* key not present in the GraphState dictionary
None == "<None>"            \* Python None in a string-typed field
AbsentInt == -1             \* party_size key not present
NoneInt == 0                \* party_size is None (only values > 0 are ever stored)
AbsentList == <<Absent>>    \* date_candidates key not present
AbsentMessage == <<Absent>> \* message key not present (a message is a word sequence)

\* resolved date strings the fuzzy date resolver returns (non-empty strings)
DateStrings == {"saturday", "sunday"}
\* a value of the selector that is in no candidate list
Hallucination == "next friday"
Facts == {"Canberra."}
Corrections == {"No- 30C is quite warm, not freezing."}

Words == {"book", "table", "Idiot", "STUPID", "idiotic"}

PROFANITY_KEYWORDS == {"idiot", "stupid"}

\* the user_id values of the requests
UserIds == {"alice", "bob"}

Intents ==
    {"ask_fact", "book_reservation", "answer_date", "answer_clarification",
     "answer_party_size", "confirm_booking", "unknown", "small_talk"}

\* str.lower() on the words of the vocabulary
Lower(w) ==
    CASE w = "Idiot" -> "idiot"
      [] w = "STUPID" -> "stupid"
      [] OTHER -> w

RECURSIVE SeqsUpTo(_, _)
SeqsUpTo(S, n) ==
    IF n = 0 THEN {<<>>}
    ELSE LET shorter == SeqsUpTo(S, n - 1)
         IN  shorter \cup {Append(s, x) : s \in shorter, x \in S}

Range(s) == {s[i] : i \in 1..Len(s)}

\* the messages a session receives, as word sequences
Messages == {<<"book", "table">>}

\* the messages the guardrail function is exercised on
GateMessages == SeqsUpTo(Words, MaxWords)

----------------------------------------------------------------------------
(* Outcomes of the external model calls: raised = the chain raised (transport *)
(* error or output that the pydantic parser rejects)                          *)

IntentOutcomes ==
    {[raised |-> TRUE, intent |-> None]}
        \cup {[raised |-> FALSE, intent |-> i] : i \in Intents}

FuzzyOutcomes ==
    {[raised |-> TRUE, date_candidates |-> <<>>]}
        \cup {[raised |-> FALSE, date_candidates |-> c] :
                c \in SeqsUpTo(DateStrings, MaxCandidates)}

SlotOutcomes ==
    {[raised |-> TRUE, selected_value |-> None]}
        \cup {[raised |-> FALSE, selected_value |-> d] :
                d \in DateStrings \cup {Hallucination}}

PartyOutcomes ==
    {[raised |-> TRUE, party_size |-> 0]}
        \cup {[raised |-> FALSE, party_size |-> n] : n \in -1..MaxPartySize}

QaOutcomes ==
    {[raised |-> TRUE, content |-> None]}
        \cup {[raised |-> FALSE, content |-> f] : f \in Facts}

SafeOutcomes ==
    {[raised |-> TRUE, is_safe |-> TRUE]}
        \cup {[raised |-> FALSE, is_safe |-> b] : b \in BOOLEAN}

ContraOutcomes ==
    {[raised |-> TRUE, is_contradictory |-> FALSE, corrected_statement |-> ""],
     [raised |-> FALSE, is_contradictory |-> FALSE, corrected_statement |-> ""]}
        \cup {[raised |-> FALSE, is_contradictory |-> TRUE, corrected_statement |-> c] :
                c \in Corrections}

----------------------------------------------------------------------------
(* Helpers *)

\* sep.join(items): "" for no item, the items separated by sep otherwise
RECURSIVE Join(_, _)
Join(items, sep) ==
    IF Len(items) = 0 THEN ""
    ELSE IF Len(items) = 1 THEN items[1]
    ELSE items[1] \o sep \o Join(Tail(items), sep)

\* Options leaving out the last candidate but one: ", ".join(candidates[:-2])
Options_short(candidates) ==
    Join(SubSeq(candidates, 1, Len(candidates) - 2), ", ")
        \o ", or " \o candidates[Len(candidates)]

\* ", ".join(candidates[:-1]) + f", or {candidates[-1]}"   (candidates non-empty)
Options(candidates) ==
    Join(SubSeq(candidates, 1, Len(candidates) - 1), ", ")
        \o ", or " \o candidates[Len(candidates)]

\* Python truthiness of an optional string / of an optional int
TruthyStr(v) == v \notin {Absent, None, ""}

TruthyInt(n) == n \notin {AbsentInt, NoneInt}

\* the GraphState of a thread that has no checkpoint yet
EmptyState ==
    [message |-> AbsentMessage, response |-> Absent, intent |-> Absent,
     booking_state |-> Absent, date_candidates |-> AbsentList, date |-> Absent,
     party_size |-> AbsentInt, last_question |-> Absent, error_message |-> Absent]

\* what a node hands back: the dictionary it returns, what it printed, and
\* whether an exception left the node instead
Returned(st, printed) == [raised |-> FALSE, state |-> st, out |-> printed]

Raised(st, printed) == [raised |-> TRUE, state |-> st, out |-> printed]

----------------------------------------------------------------------------
(* Prompts *)

RESPECTFUL == "Let's keep our conversation respectful, please."

ASK_DATE == "What day would you like to book for?"

REASK_DATE == "I'm sorry, I still didn't get that. What day would you like to book for?"

BOOKING_TROUBLE == "I'm sorry, I had trouble understanding that time. Could you rephrase?"

DATE_TROUBLE == "I'm sorry, I had trouble understanding that. What day?"

REASK_PARTY == "I'm sorry, I didn't catch that. How many people?"

HOW_MANY == "How many people?"

ANYTHING_ELSE == "Anything else you'd like?"

START_OVER == "I'm sorry, something went wrong. Let's start over. How can I help?"

DONT_UNDERSTAND == "I'm sorry, I don't understand. Can you rephrase?"

QA_TROUBLE == "I'm sorry, I'm having trouble looking that up right now."

NO_RESPONSE == "I'm not sure how to respond to that."

INTERNAL_ERROR == "HTTP 500"

AskPartySize(date) == "Great. How many people will be in your party on " \o date \o "?"

AskClarification(candidates) ==
    "Sure-just to confirm, do you mean " \o Options(candidates) \o "?"

ReaskClarification(candidates) ==
    "Sorry, I didn't catch that. Do you mean " \o Options(candidates) \o "?"

Completed(size, date) ==
    "Perfect. Reservation for " \o ToString(size) \o " on " \o date
        \o ". Anything else you'd like?"

Confirmed(size, date) ==
    "Your table for " \o ToString(size) \o " on " \o date
        \o " is confirmed. We'll see you then!"

Resume(fact, last_question) ==
    fact \o " Now, back to your reservation... " \o last_question

\* str() of an optional string inside an f-string
Fmt(v) == IF v = None THEN "None" ELSE v

----------------------------------------------------------------------------
(* guardrails.py *)

\* re.search(r'\b' + keyword + r'\b', message.lower()) for some keyword
KeywordHit(message) ==
    \E i \in 1..Len(message) : Lower(message[i]) \in PROFANITY_KEYWORDS

\* check_all_guardrails blocking the message when the moderation call raises
check_all_guardrails_fail_closed(message, safe, contra) ==
    IF KeywordHit(message) THEN RESPECTFUL
    ELSE IF safe.raised \/ safe.is_safe = FALSE THEN RESPECTFUL
    ELSE IF ~contra.raised /\ contra.is_contradictory = TRUE
         THEN contra.corrected_statement
    ELSE None

\* the string to answer with, or None
check_all_guardrails(message, safe, contra) ==
    IF KeywordHit(message) THEN RESPECTFUL
    ELSE IF ~safe.raised /\ safe.is_safe = FALSE THEN RESPECTFUL
    ELSE IF ~contra.raised /\ contra.is_contradictory = TRUE
         THEN contra.corrected_statement
    ELSE None

----------------------------------------------------------------------------
(* graph.py: the nodes.  Each takes the GraphState it is given and the     *)
(* outcome of the model call it makes.                                     *)

\* check_guardrails_node abandoning the booking when it blocks
check_guardrails_node_resetting(st, error_msg) ==
    IF TruthyStr(error_msg)
    THEN Returned([st EXCEPT !.response = error_msg, !.error_message = error_msg,
                             !.booking_state = "idle"],
                  <<"check_guardrails_node">>)
    ELSE Returned(st, <<"check_guardrails_node">>)

\* check_guardrails_node that also drops the pending question when it blocks
check_guardrails_node_forgetting(st, error_msg) ==
    IF TruthyStr(error_msg)
    THEN Returned([st EXCEPT !.response = error_msg, !.error_message = error_msg,
                             !.last_question = None],
                  <<"check_guardrails_node">>)
    ELSE Returned(st, <<"check_guardrails_node">>)

check_guardrails_node(st, error_msg) ==
    IF TruthyStr(error_msg)
    THEN Returned([st EXCEPT !.response = error_msg, !.error_message = error_msg],
                  <<"check_guardrails_node">>)
    ELSE Returned(st, <<"check_guardrails_node">>)

\* route_intent_node whose except block leaves state['intent'] as it was
route_intent_node_stale(st, llm) ==
    IF llm.raised
    THEN Returned(st, <<"route_intent_node", "Error in intent routing">>)
    ELSE Returned([st EXCEPT !.intent = llm.intent], <<"route_intent_node">>)

route_intent_node(st, llm) ==
    IF llm.raised
    THEN Returned([st EXCEPT !.intent = "unknown"],
                  <<"route_intent_node", "Error in intent routing">>)
    ELSE Returned([st EXCEPT !.intent = llm.intent], <<"route_intent_node">>)

\* handle_knowledge_node clearing party_size along with intent
handle_knowledge_node_forgetting(st, llm) ==
    LET fact == IF llm.raised THEN QA_TROUBLE ELSE llm.content
        booking_state == IF st.booking_state = Absent THEN "idle" ELSE st.booking_state
        last_question == IF st.last_question = Absent THEN "" ELSE Fmt(st.last_question)
        response == IF booking_state \notin {None, "idle", "complete"}
                    THEN Resume(fact, last_question)
                    ELSE fact
        printed == IF llm.raised
                   THEN <<"handle_knowledge_node", "Error in QA chain">>
                   ELSE <<"handle_knowledge_node">>
    IN  Returned([st EXCEPT !.response = response, !.intent = None,
                            !.party_size = NoneInt], printed)

\* handle_knowledge_node resuming whenever booking_state is not "idle"
handle_knowledge_node_resuming(st, llm) ==
    LET fact == IF llm.raised THEN QA_TROUBLE ELSE llm.content
        booking_state == IF st.booking_state = Absent THEN "idle" ELSE st.booking_state
        last_question == IF st.last_question = Absent THEN "" ELSE Fmt(st.last_question)
        response == IF booking_state # "idle"
                    THEN Resume(fact, last_question)
                    ELSE fact
        printed == IF llm.raised
                   THEN <<"handle_knowledge_node", "Error in QA chain">>
                   ELSE <<"handle_knowledge_node">>
    IN  Returned([st EXCEPT !.response = response, !.intent = None], printed)

handle_knowledge_node(st, llm) ==
    LET fact == IF llm.raised THEN QA_TROUBLE ELSE llm.content
        booking_state == IF st.booking_state = Absent THEN "idle" ELSE st.booking_state
        last_question == IF st.last_question = Absent THEN "" ELSE Fmt(st.last_question)
        response == IF booking_state \notin {None, "idle", "complete"}
                    THEN Resume(fact, last_question)
                    ELSE fact
        printed == IF llm.raised
                   THEN <<"handle_knowledge_node", "Error in QA chain">>
                   ELSE <<"handle_knowledge_node">>
    IN  Returned([st EXCEPT !.response = response, !.intent = None], printed)

\* handle_booking_node whose except block falls back to an empty candidate list
handle_booking_node_fallback(st, llm) ==
    LET candidates == IF llm.raised THEN <<>> ELSE llm.date_candidates
    IN  IF Len(candidates) = 0
        THEN Returned([st EXCEPT !.booking_state = "awaiting_date",
                                 !.response = ASK_DATE,
                                 !.last_question = ASK_DATE],
                      <<"handle_booking_node">>)
        ELSE IF Len(candidates) = 1
        THEN Returned([st EXCEPT !.date = candidates[1],
                                 !.booking_state = "awaiting_party_size",
                                 !.response = AskPartySize(candidates[1]),
                                 !.last_question = AskPartySize(candidates[1])],
                      <<"handle_booking_node">>)
        ELSE Returned([st EXCEPT !.date_candidates = candidates,
                                 !.booking_state = "awaiting_clarification",
                                 !.response = AskClarification(candidates),
                                 !.last_question = AskClarification(candidates)],
                      <<"handle_booking_node">>)

\* handle_booking_node with len(candidates) >= 1 treated as ambiguous
handle_booking_node_ambiguous(st, llm) ==
    LET candidates == llm.date_candidates
    IN  IF llm.raised
        THEN Returned([st EXCEPT !.response = BOOKING_TROUBLE],
                      <<"handle_booking_node", "Error in fuzzy time parsing">>)
        ELSE IF Len(candidates) = 0
        THEN Returned([st EXCEPT !.booking_state = "awaiting_date",
                                 !.response = ASK_DATE,
                                 !.last_question = ASK_DATE],
                      <<"handle_booking_node">>)
        ELSE Returned([st EXCEPT !.date_candidates = candidates,
                                 !.booking_state = "awaiting_clarification",
                                 !.response = AskClarification(candidates),
                                 !.last_question = AskClarification(candidates)],
                      <<"handle_booking_node">>)

handle_booking_node(st, llm) ==
    LET candidates == llm.date_candidates
    IN  IF llm.raised
        THEN Returned([st EXCEPT !.response = BOOKING_TROUBLE],
                      <<"handle_booking_node", "Error in fuzzy time parsing">>)
        ELSE IF Len(candidates) = 0
        THEN Returned([st EXCEPT !.booking_state = "awaiting_date",
                                 !.response = ASK_DATE,
                                 !.last_question = ASK_DATE],
                      <<"handle_booking_node">>)
        ELSE IF Len(candidates) = 1
        THEN Returned([st EXCEPT !.date = candidates[1],
                                 !.booking_state = "awaiting_party_size",
                                 !.response = AskPartySize(candidates[1]),
                                 !.last_question = AskPartySize(candidates[1])],
                      <<"handle_booking_node">>)
        ELSE Returned([st EXCEPT !.date_candidates = candidates,
                                 !.booking_state = "awaiting_clarification",
                                 !.response = AskClarification(candidates),
                                 !.last_question = AskClarification(candidates)],
                      <<"handle_booking_node">>)

\* handle_date_node taking candidates[-1] instead of candidates[0]
handle_date_node_last(st, llm) ==
    LET candidates == llm.date_candidates
    IN  IF llm.raised
        THEN Returned([st EXCEPT !.response = DATE_TROUBLE],
                      <<"handle_date_node", "Error in date NLU">>)
        ELSE IF Len(candidates) >= 1
        THEN Returned([st EXCEPT !.date = candidates[Len(candidates)],
                                 !.booking_state = "awaiting_party_size",
                                 !.response = AskPartySize(candidates[Len(candidates)]),
                                 !.last_question = AskPartySize(candidates[Len(candidates)])],
                      <<"handle_date_node">>)
        ELSE Returned([st EXCEPT !.response = REASK_DATE,
                                 !.last_question = REASK_DATE],
                      <<"handle_date_node">>)

handle_date_node(st, llm) ==
    LET candidates == llm.date_candidates
    IN  IF llm.raised
        THEN Returned([st EXCEPT !.response = DATE_TROUBLE],
                      <<"handle_date_node", "Error in date NLU">>)
        ELSE IF Len(candidates) >= 1
        THEN Returned([st EXCEPT !.date = candidates[1],
                                 !.booking_state = "awaiting_party_size",
                                 !.response = AskPartySize(candidates[1]),
                                 !.last_question = AskPartySize(candidates[1])],
                      <<"handle_date_node">>)
        ELSE Returned([st EXCEPT !.response = REASK_DATE,
                                 !.last_question = REASK_DATE],
                      <<"handle_date_node">>)

\* handle_clarification_node without the assignment of line 306
handle_clarification_node_lingering(st, llm) ==
    LET candidates == st.date_candidates
    IN  IF candidates = AbsentList
        THEN Raised(st, <<"handle_clarification_node", "KeyError: 'date_candidates'">>)
        ELSE IF ~llm.raised /\ llm.selected_value \in Range(candidates)
        THEN Returned([st EXCEPT !.date = llm.selected_value,
                                 !.date_candidates = <<>>,
                                 !.response = AskPartySize(llm.selected_value),
                                 !.last_question = AskPartySize(llm.selected_value)],
                      <<"handle_clarification_node">>)
        ELSE IF Len(candidates) = 0
        THEN Raised(st, <<"handle_clarification_node", "Error in clarification",
                          "IndexError: list index out of range">>)
        ELSE Returned([st EXCEPT !.response = ReaskClarification(candidates)],
                      <<"handle_clarification_node", "Error in clarification">>)

\* handle_clarification_node without the assignment of line 305
handle_clarification_node_keeping(st, llm) ==
    LET candidates == st.date_candidates
    IN  IF candidates = AbsentList
        THEN Raised(st, <<"handle_clarification_node", "KeyError: 'date_candidates'">>)
        ELSE IF ~llm.raised /\ llm.selected_value \in Range(candidates)
        THEN Returned([st EXCEPT !.date = llm.selected_value,
                                 !.booking_state = "awaiting_party_size",
                                 !.response = AskPartySize(llm.selected_value),
                                 !.last_question = AskPartySize(llm.selected_value)],
                      <<"handle_clarification_node">>)
        ELSE IF Len(candidates) = 0
        THEN Raised(st, <<"handle_clarification_node", "Error in clarification",
                          "IndexError: list index out of range">>)
        ELSE Returned([st EXCEPT !.response = ReaskClarification(candidates)],
                      <<"handle_clarification_node", "Error in clarification">>)

\* handle_clarification_node without the membership test of line 302
handle_clarification_node_trusting(st, llm) ==
    LET candidates == st.date_candidates
    IN  IF candidates = AbsentList
        THEN Raised(st, <<"handle_clarification_node", "KeyError: 'date_candidates'">>)
        ELSE IF ~llm.raised
        THEN Returned([st EXCEPT !.date = llm.selected_value,
                                 !.date_candidates = <<>>,
                                 !.booking_state = "awaiting_party_size",
                                 !.response = AskPartySize(llm.selected_value),
                                 !.last_question = AskPartySize(llm.selected_value)],
                      <<"handle_clarification_node">>)
        ELSE IF Len(candidates) = 0
        THEN Raised(st, <<"handle_clarification_node", "Error in clarification",
                          "IndexError: list index out of range">>)
        ELSE Returned([st EXCEPT !.response = ReaskClarification(candidates)],
                      <<"handle_clarification_node", "Error in clarification">>)

handle_clarification_node(st, llm) ==
    LET candidates == st.date_candidates
    IN  IF candidates = AbsentList
        THEN \* state['date_candidates'] raises KeyError outside the try block
             Raised(st, <<"handle_clarification_node", "KeyError: 'date_candidates'">>)
        ELSE IF ~llm.raised /\ llm.selected_value \in Range(candidates)
        THEN Returned([st EXCEPT !.date = llm.selected_value,
                                 !.date_candidates = <<>>,
                                 !.booking_state = "awaiting_party_size",
                                 !.response = AskPartySize(llm.selected_value),
                                 !.last_question = AskPartySize(llm.selected_value)],
                      <<"handle_clarification_node">>)
        ELSE IF Len(candidates) = 0
        THEN \* candidates[-1] raises IndexError inside the except block
             Raised(st, <<"handle_clarification_node", "Error in clarification",
                          "IndexError: list index out of range">>)
        ELSE Returned([st EXCEPT !.response = ReaskClarification(candidates)],
                      <<"handle_clarification_node", "Error in clarification">>)

\* handle_party_size_node with size >= 0 for the test of line 339
handle_party_size_node_zero(st, llm) ==
    LET size == llm.party_size
        stored == [st EXCEPT !.party_size = size, !.booking_state = "complete"]
    IN  IF llm.raised
        THEN Returned([st EXCEPT !.response = REASK_PARTY, !.last_question = HOW_MANY],
                      <<"handle_party_size_node", "Error in party size extraction">>)
        ELSE IF size >= 0
        THEN IF st.date = Absent
             THEN Returned([stored EXCEPT !.response = REASK_PARTY,
                                          !.last_question = HOW_MANY],
                           <<"handle_party_size_node",
                             "Error in party size extraction: 'date'">>)
             ELSE Returned([stored EXCEPT !.response = Completed(size, Fmt(st.date)),
                                          !.last_question = ANYTHING_ELSE],
                           <<"handle_party_size_node">>)
        ELSE Returned([st EXCEPT !.response = REASK_PARTY, !.last_question = HOW_MANY],
                      <<"handle_party_size_node",
                        "Error in party size extraction: Invalid party size.">>)

handle_party_size_node(st, llm) ==
    LET size == llm.party_size
        stored == [st EXCEPT !.party_size = size, !.booking_state = "complete"]
    IN  IF llm.raised
        THEN Returned([st EXCEPT !.response = REASK_PARTY, !.last_question = HOW_MANY],
                      <<"handle_party_size_node", "Error in party size extraction">>)
        ELSE IF size > 0
        THEN IF st.date = Absent
             THEN \* state['date'] raises KeyError after the two assignments above it;
                  \* the except block of the node catches it
                  Returned([stored EXCEPT !.response = REASK_PARTY,
                                          !.last_question = HOW_MANY],
                           <<"handle_party_size_node",
                             "Error in party size extraction: 'date'">>)
             ELSE Returned([stored EXCEPT !.response = Completed(size, Fmt(st.date)),
                                          !.last_question = ANYTHING_ELSE],
                           <<"handle_party_size_node">>)
        ELSE Returned([st EXCEPT !.response = REASK_PARTY, !.last_question = HOW_MANY],
                      <<"handle_party_size_node",
                        "Error in party size extraction: Invalid party size.">>)

\* handle_confirm_node without the assignment of line 370
handle_confirm_node_keeping(st) ==
    IF st.party_size = AbsentInt
    THEN Raised(st, <<"handle_confirm_node", "KeyError: 'party_size'">>)
    ELSE IF st.date = Absent
    THEN Raised(st, <<"handle_confirm_node", "KeyError: 'date'">>)
    ELSE IF TruthyInt(st.party_size) /\ TruthyStr(st.date)
    THEN Returned([st EXCEPT !.booking_state = "idle",
                             !.date = None,
                             !.response = Confirmed(st.party_size, st.date),
                             !.last_question = None],
                  <<"handle_confirm_node">>)
    ELSE Returned([st EXCEPT !.booking_state = "idle",
                             !.response = START_OVER,
                             !.last_question = None],
                  <<"handle_confirm_node">>)

handle_confirm_node(st) ==
    IF st.party_size = AbsentInt
    THEN Raised(st, <<"handle_confirm_node", "KeyError: 'party_size'">>)
    ELSE IF st.date = Absent
    THEN Raised(st, <<"handle_confirm_node", "KeyError: 'date'">>)
    ELSE IF TruthyInt(st.party_size) /\ TruthyStr(st.date)
    THEN Returned([st EXCEPT !.booking_state = "idle",
                             !.date = None,
                             !.party_size = NoneInt,
                             !.response = Confirmed(st.party_size, st.date),
                             !.last_question = None],
                  <<"handle_confirm_node">>)
    ELSE Returned([st EXCEPT !.booking_state = "idle",
                             !.response = START_OVER,
                             !.last_question = None],
                  <<"handle_confirm_node">>)

\* handle_unknown_node that also starts the dialogue over
handle_unknown_node_restarting(st) ==
    Returned([st EXCEPT !.response = DONT_UNDERSTAND,
                        !.booking_state = "idle",
                        !.last_question = None],
             <<"handle_unknown_node">>)

handle_unknown_node(st) ==
    Returned([st EXCEPT !.response = DONT_UNDERSTAND], <<"handle_unknown_node">>)

final_response_node(st) == Returned(st, <<"final_response">>)

----------------------------------------------------------------------------
(* graph.py: the edges *)

\* the conditional edge out of check_guardrails
after_guardrails(st) ==
    IF ~TruthyStr(st.error_message) THEN "route_intent" ELSE "final_response"

route_logic(st) ==
    CASE st.intent = "ask_fact" -> "handle_knowledge"
      [] st.intent = "book_reservation" -> "handle_booking"
      [] st.intent = "answer_date" -> "handle_date"
      [] st.intent = "answer_clarification" -> "handle_clarification"
      [] st.intent = "answer_party_size" -> "handle_party_size"
      [] st.intent = "confirm_booking" -> "handle_confirm"
      [] OTHER -> "handle_unknown"

----------------------------------------------------------------------------
(* graph.py: one run of the compiled graph *)

\* the outcomes of the model calls one run may make
LlmOutcomes ==
    [intent : IntentOutcomes, fuzzy : FuzzyOutcomes, slot : SlotOutcomes,
     party : PartyOutcomes, qa : QaOutcomes]

\* outcomes for the calls a run does not make
NotCalled ==
    [intent |-> [raised |-> TRUE, intent |-> None],
     fuzzy |-> [raised |-> TRUE, date_candidates |-> <<>>],
     slot |-> [raised |-> TRUE, selected_value |-> None],
     party |-> [raised |-> TRUE, party_size |-> 0],
     qa |-> [raised |-> TRUE, content |-> None]]

\* the node route_logic names, run on st
Handler(node, st, llm) ==
    CASE node = "handle_knowledge" -> handle_knowledge_node(st, llm.qa)
      [] node = "handle_booking" -> handle_booking_node(st, llm.fuzzy)
      [] node = "handle_date" -> handle_date_node(st, llm.fuzzy)
      [] node = "handle_clarification" -> handle_clarification_node(st, llm.slot)
      [] node = "handle_party_size" -> handle_party_size_node(st, llm.party)
      [] node = "handle_confirm" -> handle_confirm_node(st)
      [] OTHER -> handle_unknown_node(st)

\* route_intent -> handler -> final_response -> END.  A node that raises ends
\* the run: the checkpoint keeps what the nodes before it returned.
FromRouteIntent(st, llm) ==
    LET routed == route_intent_node(st, llm.intent)
        handled == Handler(route_logic(routed.state), routed.state, llm)
    IN  IF handled.raised
        THEN Raised(routed.state, routed.out \o handled.out)
        ELSE Returned(handled.state,
                      routed.out \o handled.out \o final_response_node(handled.state).out)

\* the nodes that follow check_guardrails, given the GraphState it left
AfterGuardrails(st, llm) ==
    IF after_guardrails(st) = "route_intent"
    THEN FromRouteIntent(st, llm)
    ELSE final_response_node(st)

\* the graph run from its entry point on the input {"message": message}
FromEntryPoint(st, message, error_msg, llm) ==
    LET checked == check_guardrails_node([st EXCEPT !.message = message], error_msg)
        rest == AfterGuardrails(checked.state, llm)
    IN  [rest EXCEPT !.out = checked.out \o rest.out]

\* final_state.get('response', "I'm not sure how to respond to that."), or the
\* exception of the run leaving the endpoint
ResponseText(run) ==
    IF run.raised THEN INTERNAL_ERROR
    ELSE IF run.state.response = Absent THEN NO_RESPONSE
    ELSE run.state.response

\* the handler node a run reached ("none" when it ended before one)
HandlerOf(printed) ==
    IF \E i \in 1..Len(printed) : printed[i] = "route_intent_node"
    THEN LET i == CHOOSE j \in 1..Len(printed) : printed[j] = "route_intent_node"
             k == IF printed[i + 1] = "Error in intent routing" THEN i + 2 ELSE i + 1
         IN  printed[k]
    ELSE "none"

\* check_all_guardrails has not returned yet
NoGateCall == [message |-> <<>>, result |-> Absent]

\* what check_all_guardrails can return for a message, over the outcomes of
\* its two model calls
Verdicts(message) ==
    {check_all_guardrails(message, safe, contra) :
        safe \in SafeOutcomes, contra \in ContraOutcomes}

----------------------------------------------------------------------------
(* main.py: POST /chat *)

\* update_state(config, {"message": message}, as_node="check_guardrails") records
\* the message as the output of check_guardrails; invoke(None, config) then
\* resumes the thread at the nodes that follow check_guardrails.
chat_endpoint(message, llm) ==
    LET updated == [state EXCEPT !.message = message]
        run == AfterGuardrails(updated, llm)
    IN  /\ state' = run.state
        /\ out' = run.out
        /\ http' = ResponseText(run)
        /\ UNCHANGED <<gate, session_memory, solo>>

\* MemorySaver() holds no checkpoint: every thread starts without any key
NoCheckpoints == [user_id \in UserIds |-> EmptyState]

Init ==
    /\ state = EmptyState
    /\ http = Absent
    /\ out = <<>>
    /\ gate = NoGateCall
    /\ session_memory = NoCheckpoints
    /\ solo = NoCheckpoints

Only(field, outcome) == [NotCalled EXCEPT ![field] = outcome]

With(intent, field, outcome) ==
    [NotCalled EXCEPT !.intent = intent, ![field] = outcome]

ChatKnowledge ==
    \E m \in Messages, qa \in QaOutcomes :
        chat_endpoint(m, With([raised |-> FALSE, intent |-> "ask_fact"], "qa", qa))

ChatBooking ==
    \E m \in Messages, fuzzy \in FuzzyOutcomes :
        chat_endpoint(m, With([raised |-> FALSE, intent |-> "book_reservation"],
                              "fuzzy", fuzzy))

ChatDate ==
    \E m \in Messages, fuzzy \in FuzzyOutcomes :
        chat_endpoint(m, With([raised |-> FALSE, intent |-> "answer_date"],
                              "fuzzy", fuzzy))

ChatClarification ==
    \E m \in Messages, slot \in SlotOutcomes :
        chat_endpoint(m, With([raised |-> FALSE, intent |-> "answer_clarification"],
                              "slot", slot))

ChatPartySize ==
    \E m \in Messages, party \in PartyOutcomes :
        chat_endpoint(m, With([raised |-> FALSE, intent |-> "answer_party_size"],
                              "party", party))

ChatConfirm ==
    \E m \in Messages :
        chat_endpoint(m, Only("intent", [raised |-> FALSE, intent |-> "confirm_booking"]))

ChatUnknown ==
    \E m \in Messages, intent \in IntentOutcomes :
        /\ intent.raised \/ intent.intent \in {"unknown", "small_talk"}
        /\ chat_endpoint(m, Only("intent", intent))

Next ==
    \/ ChatKnowledge
    \/ ChatBooking
    \/ ChatDate
    \/ ChatClarification
    \/ ChatPartySize
    \/ ChatConfirm
    \/ ChatUnknown

Spec == Init /\ [][Next]_vars

----------------------------------------------------------------------------
(* graph.py: the compiled graph invoked on {"message": m}, which starts at *)
(* the entry point check_guardrails (get_compiled_graph, set_entry_point)  *)

invoke_graph(message, error_msg, llm) ==
    LET run == FromEntryPoint(state, message, error_msg, llm)
    IN  /\ state' = run.state
        /\ out' = run.out
        /\ http' = ResponseText(run)
        /\ gate' = [message |-> message, result |-> error_msg]
        /\ UNCHANGED <<session_memory, solo>>

\* the node the edge out of check_guardrails picks in a run on this input
EdgeAfterGate(message, error_msg) ==
    after_guardrails(
        check_guardrails_node([state EXCEPT !.message = message], error_msg).state)

GraphBlocked ==
    \E m \in Messages : \E error_msg \in Verdicts(m) :
        /\ EdgeAfterGate(m, error_msg) = "final_response"
        /\ invoke_graph(m, error_msg, NotCalled)

GraphKnowledge ==
    \E m \in Messages, qa \in QaOutcomes : \E error_msg \in Verdicts(m) :
        /\ EdgeAfterGate(m, error_msg) = "route_intent"
        /\ invoke_graph(m, error_msg,
                        With([raised |-> FALSE, intent |-> "ask_fact"], "qa", qa))

GraphBooking ==
    \E m \in Messages, fuzzy \in FuzzyOutcomes : \E error_msg \in Verdicts(m) :
        /\ EdgeAfterGate(m, error_msg) = "route_intent"
        /\ invoke_graph(m, error_msg,
                        With([raised |-> FALSE, intent |-> "book_reservation"],
                             "fuzzy", fuzzy))

GraphDate ==
    \E m \in Messages, fuzzy \in FuzzyOutcomes : \E error_msg \in Verdicts(m) :
        /\ EdgeAfterGate(m, error_msg) = "route_intent"
        /\ invoke_graph(m, error_msg,
                        With([raised |-> FALSE, intent |-> "answer_date"],
                             "fuzzy", fuzzy))

GraphClarification ==
    \E m \in Messages, slot \in SlotOutcomes : \E error_msg \in Verdicts(m) :
        /\ EdgeAfterGate(m, error_msg) = "route_intent"
        /\ invoke_graph(m, error_msg,
                        With([raised |-> FALSE, intent |-> "answer_clarification"],
                             "slot", slot))

GraphPartySize ==
    \E m \in Messages, party \in PartyOutcomes : \E error_msg \in Verdicts(m) :
        /\ EdgeAfterGate(m, error_msg) = "route_intent"
        /\ invoke_graph(m, error_msg,
                        With([raised |-> FALSE, intent |-> "answer_party_size"],
                             "party", party))

GraphConfirm ==
    \E m \in Messages : \E error_msg \in Verdicts(m) :
        /\ EdgeAfterGate(m, error_msg) = "route_intent"
        /\ invoke_graph(m, error_msg,
                        Only("intent", [raised |-> FALSE, intent |-> "confirm_booking"]))

GraphUnknown ==
    \E m \in Messages, intent \in IntentOutcomes : \E error_msg \in Verdicts(m) :
        /\ intent.raised \/ intent.intent \in {"unknown", "small_talk"}
        /\ EdgeAfterGate(m, error_msg) = "route_intent"
        /\ invoke_graph(m, error_msg, Only("intent", intent))

NextGraph ==
    \/ GraphBlocked
    \/ GraphKnowledge
    \/ GraphBooking
    \/ GraphDate
    \/ GraphClarification
    \/ GraphPartySize
    \/ GraphConfirm
    \/ GraphUnknown

SpecGraph == Init /\ [][NextGraph]_vars

----------------------------------------------------------------------------
(* guardrails.py under test: check_all_guardrails on every message of up to *)
(* MaxWords words and every outcome of its two model calls, followed by the  *)
(* run of the graph that the result starts on a new thread                   *)

InitGate ==
    /\ state = EmptyState
    /\ http = Absent
    /\ out = <<>>
    /\ gate \in [message : GateMessages, safe : SafeOutcomes, contra : ContraOutcomes,
                 result : {Absent}]
    /\ session_memory = NoCheckpoints
    /\ solo = NoCheckpoints

GateAnswers ==
    /\ gate.result = Absent
    /\ KeywordHit(gate.message)
    /\ LET result == check_all_guardrails(gate.message, gate.safe, gate.contra)
           run == FromEntryPoint(state, gate.message, result, NotCalled)
       IN  /\ gate' = [gate EXCEPT !.result = result]
           /\ state' = run.state
           /\ out' = run.out
           /\ http' = ResponseText(run)
           /\ UNCHANGED <<session_memory, solo>>

GateAsksModel ==
    /\ gate.result = Absent
    /\ ~KeywordHit(gate.message)
    /\ \E intent \in IntentOutcomes :
        LET result == check_all_guardrails(gate.message, gate.safe, gate.contra)
            run == FromEntryPoint(state, gate.message, result, Only("intent", intent))
        IN  /\ gate' = [gate EXCEPT !.result = result]
            /\ state' = run.state
            /\ out' = run.out
            /\ http' = ResponseText(run)
            /\ UNCHANGED <<session_memory, solo>>

NextGate == GateAnswers \/ GateAsksModel

SpecGate == InitGate /\ [][NextGate]_vars

----------------------------------------------------------------------------
(* main.py: POST /chat from several users.  chat_endpoint is a coroutine    *)
(* without an await, so the calls run one after the other in any order of   *)
(* the users                                                                *)

\* thread_id with the key of the session: pinned to one thread for all users
thread_id_shared(user_id) == "alice"

\* config = {"configurable": {"thread_id": user_id}}
thread_id(user_id) == user_id

\* the model calls of the turns taken in the several-user runs
SessionCalls ==
    {With([raised |-> FALSE, intent |-> "book_reservation"], "fuzzy",
          [raised |-> FALSE, date_candidates |-> c]) :
        c \in {<<"saturday">>, <<"saturday", "sunday">>}}
    \cup {With([raised |-> FALSE, intent |-> "answer_clarification"], "slot", slot) :
            slot \in {[raised |-> FALSE, selected_value |-> "sunday"],
                      [raised |-> TRUE, selected_value |-> None]}}
    \cup {With([raised |-> FALSE, intent |-> "answer_party_size"], "party",
               [raised |-> FALSE, party_size |-> MaxPartySize]),
          Only("intent", [raised |-> FALSE, intent |-> "confirm_booking"])}

\* chat_endpoint for the request {"user_id": user_id, "message": message}
chat_endpoint_of(user_id, message, llm) ==
    LET thread == thread_id(user_id)
        updated == [session_memory[thread] EXCEPT !.message = message]
        run == AfterGuardrails(updated, llm)
        alone == AfterGuardrails([solo[user_id] EXCEPT !.message = message], llm)
    IN  /\ session_memory' = [session_memory EXCEPT ![thread] = run.state]
        /\ solo' = [solo EXCEPT ![user_id] = alone.state]
        /\ state' = run.state
        /\ out' = run.out
        /\ http' = ResponseText(run)
        /\ UNCHANGED gate

ChatOf ==
    \E user_id \in UserIds, m \in Messages, llm \in SessionCalls :
        chat_endpoint_of(user_id, m, llm)

NextSessions == ChatOf

SpecSessions == Init /\ [][NextSessions]_vars

-----------------------------------------------------------------------------
(* Properties *)

Asked(intent) == [raised |-> FALSE, intent |-> intent]

DateSet(st) == st.date \notin {Absent, None}

PartySizeSet(st) == st.party_size \notin {AbsentInt, NoneInt}

CandidatesStored(st) == st.date_candidates # AbsentList /\ Len(st.date_candidates) > 0

\* C1: a clarification turn taken in awaiting_clarification whose selector
\* fails or returns a value that is not in the stored candidate list does not
\* accept the value: date, booking_state, date_candidates (and party_size and
\* last_question) are what they were, the answer is the re-prompt built from the
\* stored list, and taking the same turn again changes nothing any more.
C1_RejectedSelectionKeepsState ==
    [][\A m \in Messages, slot \in SlotOutcomes :
         LET llm == With(Asked("answer_clarification"), "slot", slot)
         IN  ( /\ state.booking_state = "awaiting_clarification"
               /\ slot.raised \/ slot.selected_value \notin Range(state.date_candidates)
               /\ chat_endpoint(m, llm) )
             => /\ state'.date = state.date
                /\ state'.booking_state = "awaiting_clarification"
                /\ state'.date_candidates = state.date_candidates
                /\ state'.party_size = state.party_size
                /\ state'.last_question = state.last_question
                /\ http' = ReaskClarification(state.date_candidates)
                /\ AfterGuardrails([state' EXCEPT !.message = m], llm).state = state'
      ]_vars

\* a rejected clarification turn has just been taken in awaiting_clarification
C1_Witness ==
    /\ state.booking_state = "awaiting_clarification"
    /\ out = <<"route_intent_node", "handle_clarification_node",
               "Error in clarification", "final_response">>
    /\ http = ReaskClarification(state.date_candidates)

\* C2 (as claimed): date_candidates is never non-empty while date is set.
C2_CandidatesAndDateExclusive ==
    ~(CandidatesStored(state) /\ DateSet(state))

\* position of a booking_state in the flow idle -> awaiting_date ->
\* awaiting_clarification -> awaiting_party_size -> complete (a thread whose
\* booking_state was never written counts as idle)
Rank(booking_state) ==
    CASE booking_state = "awaiting_date" -> 1
      [] booking_state = "awaiting_clarification" -> 2
      [] booking_state = "awaiting_party_size" -> 3
      [] booking_state = "complete" -> 4
      [] OTHER -> 0

Blocked(printed) == printed = <<"check_guardrails_node", "final_response">>

C4_CleanMessageIsClassified ==
    (gate.result = None)
        => /\ \E i \in 1..Len(out) : out[i] = "route_intent_node"
           /\ HandlerOf(out) # "none"

\* C5 (as claimed): every message of the endpoint goes through
\* check_guardrails first.
C5_GateRunsFirst ==
    (state.message # AbsentMessage)
        => /\ Len(out) > 0
           /\ out[1] = "check_guardrails_node"

C8_ConfirmWithoutSlotsRecovers ==
    [][\A m \in Messages :
         ( /\ ~(PartySizeSet(state) /\ DateSet(state))
           /\ chat_endpoint(m, Only("intent", Asked("confirm_booking"))) )
         => /\ http' = START_OVER
            /\ state'.booking_state = "idle"
      ]_vars

\* C9: a party-size turn taken in awaiting_party_size whose extractor raises
\* or returns a size <= 0 leaves booking_state and party_size as they were and
\* re-asks.
C9_InvalidPartySizeReasks ==
    [][\A m \in Messages, party \in PartyOutcomes :
         ( /\ state.booking_state = "awaiting_party_size"
           /\ party.raised \/ party.party_size <= 0
           /\ chat_endpoint(m, With(Asked("answer_party_size"), "party", party)) )
         => /\ state'.booking_state = "awaiting_party_size"
            /\ state'.party_size = state.party_size
            /\ state'.date = state.date
            /\ http' = REASK_PARTY
            /\ state'.last_question = HOW_MANY
      ]_vars

\* the extractor has just returned a size <= 0 in awaiting_party_size
C9_Witness ==
    /\ state.booking_state = "awaiting_party_size"
    /\ out = <<"route_intent_node", "handle_party_size_node",
               "Error in party size extraction: Invalid party size.",
               "final_response">>
    /\ http = REASK_PARTY

\* C10 (as claimed): a party-size turn whose extractor returns a size > 0
\* stores it, sets booking_state to complete and answers with the prompt that
\* confirms the stored date and the size; booking_state does not become
\* complete in a turn that answers with the re-ask.
C10_ValidPartySizeCompletes ==
    [][\A m \in Messages, party \in PartyOutcomes :
         ( /\ ~party.raised
           /\ party.party_size > 0
           /\ chat_endpoint(m, With(Asked("answer_party_size"), "party", party)) )
         => /\ state'.party_size = party.party_size
            /\ state'.booking_state = "complete"
            /\ http' # REASK_PARTY
            /\ DateSet(state) => http' = Completed(party.party_size, state.date)
      ]_vars

\* C11: a clarification turn taken in awaiting_clarification whose selector
\* returns a member of date_candidates stores that value as date, empties
\* date_candidates, sets booking_state to awaiting_party_size and asks for the
\* party size on that date.
C11_AcceptedSelectionAdvances ==
    [][\A m \in Messages, slot \in SlotOutcomes :
         ( /\ state.booking_state = "awaiting_clarification"
           /\ ~slot.raised
           /\ slot.selected_value \in Range(state.date_candidates)
           /\ chat_endpoint(m, With(Asked("answer_clarification"), "slot", slot)) )
         => /\ state'.date = slot.selected_value
            /\ state'.date_candidates = <<>>
            /\ state'.booking_state = "awaiting_party_size"
            /\ state'.party_size = state.party_size
            /\ http' = "Great. How many people will be in your party on "
                          \o slot.selected_value \o "?"
      ]_vars

\* the second of two different candidates has just been selected
C11_Witness ==
    /\ out = <<"route_intent_node", "handle_clarification_node", "final_response">>
    /\ state.booking_state = "awaiting_party_size"
    /\ state.date = "sunday"
    /\ state.date_candidates = <<>>
    /\ http = "Great. How many people will be in your party on sunday?"

\* the candidates as an either/or list: each in order, ", " between them and
\* "or " before the last
RECURSIVE EitherOr(_)
EitherOr(candidates) ==
    IF Len(candidates) = 1 THEN "or " \o candidates[1]
    ELSE candidates[1] \o ", " \o EitherOr(Tail(candidates))

Idle(st) == st.booking_state \in {Absent, "idle"}

\* C12: a start_booking turn taken in idle (or on a new thread) whose date
\* resolver returns no candidate sets awaiting_date and answers exactly "What
\* day would you like to book for?"; with one candidate it stores it as date
\* and sets awaiting_party_size; with two or more it stores the list in order
\* as date_candidates, sets awaiting_clarification and asks about every
\* candidate in order.
C12_BookingByCandidateCount ==
    [][\A m \in Messages, fuzzy \in FuzzyOutcomes :
         LET candidates == fuzzy.date_candidates
         IN  ( /\ Idle(state)
               /\ ~fuzzy.raised
               /\ chat_endpoint(m, With(Asked("book_reservation"), "fuzzy", fuzzy)) )
             => /\ Len(candidates) = 0
                    => /\ state'.booking_state = "awaiting_date"
                       /\ http' = "What day would you like to book for?"
                       /\ state'.date = state.date
                       /\ state'.date_candidates = state.date_candidates
                /\ Len(candidates) = 1
                    => /\ state'.booking_state = "awaiting_party_size"
                       /\ state'.date = candidates[1]
                       /\ state'.date_candidates = state.date_candidates
                /\ Len(candidates) >= 2
                    => /\ state'.booking_state = "awaiting_clarification"
                       /\ state'.date_candidates = candidates
                       /\ state'.date = state.date
                       /\ http' = "Sure-just to confirm, do you mean "
                                     \o EitherOr(candidates) \o "?"
      ]_vars

\* a start_booking turn on a new thread has just stored two different candidates
C12_Witness ==
    /\ out = <<"route_intent_node", "handle_booking_node", "final_response">>
    /\ state.booking_state = "awaiting_clarification"
    /\ state.date_candidates = <<"saturday", "sunday">>
    /\ state.date = Absent
    /\ http = "Sure-just to confirm, do you mean saturday, or sunday?"

\* C13: a start_booking turn whose date resolver returns exactly one
\* candidate sets booking_state to awaiting_party_size at once, and
\* booking_state becomes awaiting_clarification only in a start_booking turn
\* whose resolver returns two or more candidates; so a booking begun with one
\* candidate never visits awaiting_clarification unless it is restarted so.
C13_OneCandidateSkipsClarification ==
    [][ /\ \A m \in Messages, fuzzy \in FuzzyOutcomes :
             ( /\ ~fuzzy.raised
               /\ Len(fuzzy.date_candidates) = 1
               /\ chat_endpoint(m, With(Asked("book_reservation"), "fuzzy", fuzzy)) )
             => state'.booking_state = "awaiting_party_size"
        /\ ( /\ state.booking_state # "awaiting_clarification"
             /\ state'.booking_state = "awaiting_clarification" )
           => \E m \in Messages, fuzzy \in FuzzyOutcomes :
                /\ ~fuzzy.raised
                /\ Len(fuzzy.date_candidates) >= 2
                /\ chat_endpoint(m, With(Asked("book_reservation"), "fuzzy", fuzzy))
      ]_vars

\* a booking begun with one candidate on a thread that never stored candidates
\* is answered, some turns later, with a party size
C13_Witness ==
    /\ HandlerOf(out) = "handle_party_size_node"
    /\ state.booking_state = "complete"
    /\ state.date = "saturday"
    /\ state.date_candidates = AbsentList

\* C14: a provide_date turn taken in awaiting_date whose date resolver returns
\* at least one candidate stores the first candidate as date and sets
\* booking_state to awaiting_party_size; when it returns none the user is asked
\* for the day again, booking_state stays awaiting_date and date,
\* date_candidates and party_size are unchanged.
C14_DateTakesFirstCandidate ==
    [][state.booking_state = "awaiting_date" =>
       \A m \in Messages, fuzzy \in FuzzyOutcomes :
         LET candidates == fuzzy.date_candidates
         IN  ( /\ ~fuzzy.raised
               /\ chat_endpoint(m, With(Asked("answer_date"), "fuzzy", fuzzy)) )
             => /\ state'.date_candidates = state.date_candidates
                /\ state'.party_size = state.party_size
                /\ Len(candidates) >= 1
                    => /\ state'.date = candidates[1]
                       /\ state'.booking_state = "awaiting_party_size"
                /\ Len(candidates) = 0
                    => /\ state'.date = state.date
                       /\ state'.booking_state = "awaiting_date"
                       /\ http' = "I'm sorry, I still didn't get that. "
                                     \o "What day would you like to book for?"
      ]_vars

\* the day was asked for, and the first of two different candidates was taken
C14_Witness ==
    /\ out = <<"route_intent_node", "handle_date_node", "final_response">>
    /\ state.booking_state = "awaiting_party_size"
    /\ state.date = "saturday"
    /\ state.date_candidates = AbsentList
    /\ http = "Great. How many people will be in your party on saturday?"

\* C15: an ask_fact turn, in any booking_state, leaves booking_state, date,
\* date_candidates, party_size and last_question unchanged and sets intent to
\* None; the answer is the fact (or the canned apology when the QA call
\* failed), and when booking_state is neither idle nor complete it is followed
\* by " Now, back to your reservation... " and the stored last_question.
C15_FactKeepsBooking ==
    [][\A m \in Messages, qa \in QaOutcomes :
         LET fact == IF qa.raised
                     THEN "I'm sorry, I'm having trouble looking that up right now."
                     ELSE qa.content
         IN  chat_endpoint(m, With(Asked("ask_fact"), "qa", qa))
             => /\ state'.booking_state = state.booking_state
                /\ state'.date = state.date
                /\ state'.date_candidates = state.date_candidates
                /\ state'.party_size = state.party_size
                /\ state'.last_question = state.last_question
                /\ state'.intent = None
                /\ http' = IF state.booking_state \in
                                {"awaiting_date", "awaiting_clarification",
                                 "awaiting_party_size"}
                           THEN fact \o " Now, back to your reservation... "
                                     \o state.last_question
                           ELSE fact
      ]_vars

\* a fact was asked for while the party size was awaited
C15_Witness ==
    /\ out = <<"route_intent_node", "handle_knowledge_node", "final_response">>
    /\ state.booking_state = "awaiting_party_size"
    /\ state.intent = None
    /\ state.last_question = "Great. How many people will be in your party on saturday?"
    /\ http = "Canberra. Now, back to your reservation... "
                 \o "Great. How many people will be in your party on saturday?"

\* the handlers that answer with a prompt of the reservation dialogue
PromptHandlers ==
    {"handle_booking_node", "handle_date_node", "handle_clarification_node",
     "handle_party_size_node"}

\* C16: after every turn that answers with a prompt (first ask, re-ask after a
\* failed extraction, clarification re-prompt, completion prompt)
\* last_question is the text answered in that turn, and after a confirm_booking
\* turn last_question is None.
C16_LastQuestionIsThePrompt ==
    /\ ( HandlerOf(out) \in PromptHandlers /\ http # INTERNAL_ERROR )
         => state.last_question = http
    /\ HandlerOf(out) = "handle_confirm_node" => state.last_question = None

\* C18: date_candidates is non-empty only while booking_state is
\* awaiting_clarification.
C18_CandidatesOnlyWhileClarifying ==
    CandidatesStored(state) => state.booking_state = "awaiting_clarification"

\* C17: once party_size holds a positive integer, the only turn after which it
\* does not is a confirm_booking turn that confirms the booking (it answers the
\* confirmation, sets booking_state to idle and party_size to None); fact,
\* unknown, date, clarification, booking and blocked turns keep it positive.
C17_PartySizeClearedOnlyByConfirm ==
    [][ state.party_size > 0
          => \/ state'.party_size > 0
             \/ /\ HandlerOf(out') = "handle_confirm_node"
                /\ state'.party_size = NoneInt
                /\ state'.booking_state = "idle"
                /\ http' = "Your table for " \o ToString(state.party_size) \o " on "
                              \o state.date \o " is confirmed. We'll see you then!"
      ]_vars

\* a turn was blocked after the party size had completed the booking
C17_Witness ==
    /\ Blocked(out)
    /\ state.party_size > 0
    /\ state.booking_state = "complete"
    /\ DateSet(state)

\* the intents whose handler makes a model call of its own
CallingIntents ==
    {"ask_fact", "book_reservation", "answer_date", "answer_clarification",
     "answer_party_size"}

\* C19: a turn whose model call fails, in any reachable state and for any
\* intent, still runs to the final response and is answered with a text of the
\* program; the run is never aborted. (The calls are the intent call, or, the
\* intent call having returned, the call of the intent's handler; the
\* clarification handler makes its call once it has read stored candidates.)
C19_FailedCallStillAnswers ==
    [][ /\ \A m \in Messages :
             chat_endpoint(m, NotCalled)
             => http' # INTERNAL_ERROR /\ out'[Len(out')] = "final_response"
        /\ \A m \in Messages, intent \in CallingIntents :
             ( /\ intent = "answer_clarification" => state.date_candidates # AbsentList
               /\ chat_endpoint(m, Only("intent", Asked(intent))) )
             => http' # INTERNAL_ERROR /\ out'[Len(out')] = "final_response"
      ]_vars

\* C20: when the intent classification call fails, the turn's intent is
\* "unknown", the run is not aborted, and the turn is answered by
\* handle_unknown_node, which changes nothing else of the session.
C20_FailedClassificationIsUnknown ==
    [][\A m \in Messages :
         chat_endpoint(m, NotCalled)
         => /\ state'.intent = "unknown"
            /\ out' = <<"route_intent_node", "Error in intent routing",
                        "handle_unknown_node", "final_response">>
            /\ http' = "I'm sorry, I don't understand. Can you rephrase?"
            /\ state' = [state EXCEPT !.message = m,
                                      !.intent = "unknown",
                                      !.response = http']
      ]_vars

\* the classification call failed in a turn that followed a start_booking turn
C20_Witness ==
    /\ out = <<"route_intent_node", "Error in intent routing",
               "handle_unknown_node", "final_response">>
    /\ state.intent = "unknown"
    /\ state.booking_state = "awaiting_date"
    /\ http = "I'm sorry, I don't understand. Can you rephrase?"

\* the date resolver's call failed / returned an empty list
FuzzyFailed == [raised |-> TRUE, date_candidates |-> <<>>]

FuzzyEmpty == [raised |-> FALSE, date_candidates |-> <<>>]

DateIntents == {"book_reservation", "answer_date"}

\* C21 (as claimed): a start_booking or provide_date turn whose date resolver
\* call fails ends in the state, with the last_question and the answer, of the
\* same turn with a resolver that returned an empty list; a start_booking turn
\* so ends in awaiting_date with "What day would you like to book for?".
C21_FailureIsEmptyList ==
    [][\A m \in Messages, intent \in DateIntents :
         LET zero == AfterGuardrails([state EXCEPT !.message = m],
                                     With(Asked(intent), "fuzzy", FuzzyEmpty))
         IN  chat_endpoint(m, With(Asked(intent), "fuzzy", FuzzyFailed))
             => /\ state'.booking_state = zero.state.booking_state
                /\ state'.last_question = zero.state.last_question
                /\ http' = ResponseText(zero)
                /\ intent = "book_reservation"
                    => /\ state'.booking_state = "awaiting_date"
                       /\ http' = "What day would you like to book for?"
      ]_vars

\* C21 (amended): a start_booking or provide_date turn whose date resolver
\* call fails answers the handler's own apology and leaves booking_state, date,
\* date_candidates, party_size and last_question as they were.
C21_FailureKeepsState ==
    [][\A m \in Messages, intent \in DateIntents :
         chat_endpoint(m, With(Asked(intent), "fuzzy", FuzzyFailed))
         => /\ state'.booking_state = state.booking_state
            /\ state'.date = state.date
            /\ state'.date_candidates = state.date_candidates
            /\ state'.party_size = state.party_size
            /\ state'.last_question = state.last_question
            /\ http' = IF intent = "book_reservation"
                       THEN "I'm sorry, I had trouble understanding that time. "
                                \o "Could you rephrase?"
                       ELSE "I'm sorry, I had trouble understanding that. What day?"
      ]_vars

\* the resolver failed in a start_booking turn taken while the party size was
\* awaited: the booking is where it was
C21_Witness ==
    /\ out = <<"route_intent_node", "handle_booking_node",
               "Error in fuzzy time parsing", "final_response">>
    /\ state.booking_state = "awaiting_party_size"
    /\ state.last_question = "Great. How many people will be in your party on saturday?"
    /\ http = "I'm sorry, I had trouble understanding that time. Could you rephrase?"

\* the labels route_logic has a branch for
HandledIntents ==
    {"ask_fact", "book_reservation", "answer_date", "answer_clarification",
     "answer_party_size", "confirm_booking"}

\* C22: a turn whose intent label is "unknown" or any other label without a
\* branch in route_logic (a failed classification and a label of None
\* included) is run by handle_unknown_node, is answered "I'm sorry, I don't
\* understand. Can you rephrase?", and leaves booking_state, date,
\* date_candidates, party_size and last_question unchanged.
C22_UnhandledLabelChangesNothing ==
    [][ /\ \A m \in Messages, intent \in IntentOutcomes :
             ( /\ intent.raised \/ intent.intent \notin HandledIntents
               /\ chat_endpoint(m, Only("intent", intent)) )
             => /\ out' \in {<<"route_intent_node", "handle_unknown_node",
                               "final_response">>,
                             <<"route_intent_node", "Error in intent routing",
                               "handle_unknown_node", "final_response">>}
                /\ http' = "I'm sorry, I don't understand. Can you rephrase?"
                /\ state'.booking_state = state.booking_state
                /\ state'.date = state.date
                /\ state'.date_candidates = state.date_candidates
                /\ state'.party_size = state.party_size
                /\ state'.last_question = state.last_question
        /\ \A label \in {None, Absent, "unknown"} :
             route_logic([state' EXCEPT !.intent = label]) = "handle_unknown"
      ]_vars

\* a label without a handler arrived while a clarification was awaited
C22_Witness ==
    /\ out = <<"route_intent_node", "handle_unknown_node", "final_response">>
    /\ state.intent = "small_talk"
    /\ state.booking_state = "awaiting_clarification"
    /\ state.date_candidates = <<"saturday", "sunday">>
    /\ state.last_question = "Sure-just to confirm, do you mean saturday, or sunday?"
    /\ http = "I'm sorry, I don't understand. Can you rephrase?"

\* the session the first turn is claimed to run against: the initial_state of
\* chat_endpoint (booking_state "idle", date_candidates []), with no date and
\* no party size
DefaultSession ==
    [EmptyState EXCEPT !.booking_state = "idle", !.date_candidates = <<>>,
                       !.date = None, !.party_size = NoneInt]

\* C23: on the first turn of a thread never seen before the handler of the
\* turn's intent runs against the default session: whatever the intent and the
\* outcomes of the model calls, the run is not aborted and the caller gets the
\* answer of the same turn taken on the default session.
C23_FirstTurnOnDefaultSession ==
    [][ state = EmptyState =>
        \A m \in Messages, llm \in LlmOutcomes :
            LET default == AfterGuardrails([DefaultSession EXCEPT !.message = m], llm)
            IN  chat_endpoint(m, llm)
                => /\ http' # INTERNAL_ERROR
                   /\ http' = ResponseText(default)
      ]_vars

\* C24: in every order of the turns of different users, the session kept for
\* each user is the one that user's own turns, taken alone in the same order,
\* lead to.
C24_SessionsAreIsolated ==
    \A user_id \in UserIds : session_memory[user_id] = solo[user_id]

\* bob has just completed a booking while alice's clarification is pending
C24_Witness ==
    /\ session_memory["alice"].booking_state = "awaiting_clarification"
    /\ session_memory["alice"].date = Absent
    /\ session_memory["bob"].booking_state = "complete"
    /\ session_memory["bob"].date = "saturday"
    /\ state = session_memory["bob"]
    /\ HandlerOf(out) = "handle_party_size_node"

\* C25: whenever booking_state is complete, date holds a date string and
\* party_size a positive integer.
C25_CompleteHasBothSlots ==
    state.booking_state = "complete"
        => state.date \in DateStrings /\ state.party_size > 0

\* C26: a graph run in which check_all_guardrails answers (a block or a
\* correction; gate holds the call of the run) ends at final_response with
\* that answer and changes only message, response and error_message:
\* booking_state, date, date_candidates, party_size and last_question are what
\* they were.
C26_BlockedTurnKeepsBooking ==
    [][ TruthyStr(gate'.result)
         => /\ out' = <<"check_guardrails_node", "final_response">>
            /\ http' = gate'.result
            /\ state'.booking_state = state.booking_state
            /\ state'.date = state.date
            /\ state'.date_candidates = state.date_candidates
            /\ state'.party_size = state.party_size
            /\ state'.last_question = state.last_question
            /\ state'.intent = state.intent
            /\ state'.response = gate'.result
            /\ state'.error_message = gate'.result
      ]_vars

\* a message was blocked while a clarification was awaited
C26_Witness ==
    /\ Blocked(out)
    /\ TruthyStr(gate.result)
    /\ http = gate.result
    /\ state.booking_state = "awaiting_clarification"
    /\ state.date_candidates = <<"saturday", "sunday">>
    /\ state.last_question = "Sure-just to confirm, do you mean saturday, or sunday?"

\* C27: whenever booking_state is awaiting_clarification, date_candidates
\* holds at least two entries, and a clarification turn that leaves the
\* session there has answered the re-prompt that lists them.
C27_ClarificationHasCandidates ==
    state.booking_state = "awaiting_clarification"
        => /\ state.date_candidates # AbsentList
           /\ Len(state.date_candidates) >= 2
           /\ HandlerOf(out) = "handle_clarification_node"
                => http = "Sorry, I didn't catch that. Do you mean "
                             \o EitherOr(state.date_candidates) \o "?"

\* a selection outside the stored pair was turned down
C27_Witness ==
    /\ state.booking_state = "awaiting_clarification"
    /\ HandlerOf(out) = "handle_clarification_node"
    /\ state.date_candidates = <<"sunday", "saturday">>
    /\ http = "Sorry, I didn't catch that. Do you mean sunday, or saturday?"

\* a start_booking or provide_date turn in which the resolver returns a list
\* that starts with this date
ResolvedNow(date) ==
    \E m \in Messages, intent \in DateIntents, fuzzy \in FuzzyOutcomes :
        /\ ~fuzzy.raised
        /\ Len(fuzzy.date_candidates) >= 1
        /\ fuzzy.date_candidates[1] = date
        /\ chat_endpoint(m, With(Asked(intent), "fuzzy", fuzzy))

\* a start_booking turn in which the resolver returns this list
ResolvedList(candidates) ==
    \E m \in Messages :
        chat_endpoint(m, With(Asked("book_reservation"), "fuzzy",
                              [raised |-> FALSE, date_candidates |-> candidates]))

\* C28: date only ever takes a string the date resolver returned: a turn that
\* stores a new date is a turn in which the resolver returned it first, or a
\* clarification turn that took it from the stored date_candidates; and
\* date_candidates is only ever emptied or set to a list the resolver returned
\* in that turn.  A value only the selector produced is never stored.
C28_DateComesFromResolver ==
    [][ /\ ( DateSet(state') /\ state'.date # state.date )
            => \/ /\ HandlerOf(out') = "handle_clarification_node"
                  /\ CandidatesStored(state)
                  /\ state'.date \in Range(state.date_candidates)
               \/ ResolvedNow(state'.date)
        /\ state'.date_candidates # state.date_candidates
            => \/ state'.date_candidates = <<>>
               \/ ResolvedList(state'.date_candidates)
        /\ state'.date # Hallucination
      ]_vars

\* the first of the stored candidates was selected
C28_Witness ==
    /\ out = <<"route_intent_node", "handle_clarification_node", "final_response">>
    /\ state.date = "saturday"
    /\ state.date_candidates = <<>>
    /\ state.intent = "answer_clarification"

====
